---- MODULE Spec2Model ----
(***************************************************************************)
(* XRainbow (src/xrainbow.c): option parsing, the rainbow loop, the gamma  *)
(* sink, the signal handler and the exit-time teardown, as one state       *)
(* machine.                                                                *)
(*                                                                         *)
(* Numbers.  Every C float/double of the program (seconds, speed,          *)
(* luminosity, gamma channels) is a fixed-point integer: the real x is the *)
(* integer x * Unit.  Unit is the smallest scale in which 0.1, 0.5, 1/3    *)
(* and the products elapsed * speed of the values used here are integers,  *)
(* so no operation below rounds; the rounding of IEEE float/double is not  *)
(* modelled.                                                               *)
(***************************************************************************)
EXTENDS Integers, Sequences, FiniteSets

\* ------------------------------------------------------------------ bounds

\* Longest command line (arguments after argv[0]).
MaxArgs == 3

\* How many times the monotonic clock advances (by TickLen) in a run.
MaxTicks == 4

\* Where the count after_stop stops counting.
MaxAfterStop == 2

\* ------------------------------------------------------------ fixed point

Unit == 2 * 2 * 3 * 5

\* The clock advances in half seconds.
TickLen == Unit \div 2

\* a * b for two fixed-point numbers (exact for the values of this model).
Mul(a, b) == (a * b) \div Unit

\* --------------------------------------------------------------- constants

GAMMA_MIN == Unit \div 10
GAMMA_MAX == 10 * Unit
LUMINOSITY_MIN == Unit \div 10
LUMINOSITY_MAX == (99 * Unit) \div 10
Neutral == <<Unit, Unit, Unit>>

DefaultTimeLimit == -Unit
DefaultSpeed == Unit
DefaultLuminosity == Unit \div 3

\* ------------------------------------------------------------ command line

HelpFlags == {"-h", "--help"}
VersionFlags == {"-v", "--version"}
TimeLimitFlags == {"-t", "--time-limit"}
LuminosityFlags == {"-l", "--luminosity"}
SpeedFlags == {"-s", "--speed"}

\* The numeric strings a command line of this model may hold.
Numerals == {"-1", "0", "0.1", "1", "9.9", "10"}

\* The strings a command line of this model is made of.
Tokens == {"-h", "-v", "-t", "-l", "-s"} \cup Numerals

\* atof(3): the value of a leading decimal number, 0.0 when there is none.
atof(s) ==
    CASE s = "-1" -> -Unit
      [] s = "0" -> 0
      [] s = "0.1" -> Unit \div 10
      [] s = "1" -> Unit
      [] s = "9.9" -> (99 * Unit) \div 10
      [] s = "10" -> 10 * Unit
      [] OTHER -> 0

\* The test of line 150 that sends a luminosity to the usage text.
LuminosityRejected(l) == l < LUMINOSITY_MIN \/ l > LUMINOSITY_MAX

\* Mutant: a speed of zero passes.
SpeedRejected_Strict(s) == s < 0

\* The test of line 159 that sends a speed to the usage text.
SpeedRejected(s) == s <= 0

\* --------------------------------------------------------- colour function

\* (long)t: conversion to integer truncates toward zero.
ToLong(x) == IF x >= 0 THEN x \div Unit ELSE -((-x) \div Unit)

\* fmod(t, 1.0): the remainder has the sign of t.
Fmod1(x) == IF x >= 0 THEN x % Unit ELSE -((-x) % Unit)

\* C's a % 3 on longs: the remainder has the sign of a.
Rem3(a) == IF a >= 0 THEN a % 3 ELSE -((-a) % 3)

\* Mutant: the second boost lands on the channel before, not after.
call_rainbow_WrongNext(tt, c) ==
    LET p0 == <<c, c, c>>
        i1 == Rem3(ToLong(tt)) + 1
        p1 == [p0 EXCEPT ![i1] = @ + (Unit - Fmod1(tt))]
        i2 == Rem3(ToLong(tt) + 2) + 1
    IN  [p1 EXCEPT ![i2] = @ + Fmod1(tt)]

\* Mutant: the first boost is frac instead of 1 - frac.
call_rainbow_NoComplement(tt, c) ==
    LET p0 == <<c, c, c>>
        i1 == Rem3(ToLong(tt)) + 1
        p1 == [p0 EXCEPT ![i1] = @ + Fmod1(tt)]
        i2 == Rem3(ToLong(tt) + 1) + 1
    IN  [p1 EXCEPT ![i2] = @ + Fmod1(tt)]

\* The palette call_rainbow hands to change_gamma (palette[k] is <<r,g,b>>[k+1]).
call_rainbow(tt, c) ==
    LET p0 == <<c, c, c>>
        i1 == Rem3(ToLong(tt)) + 1
        p1 == [p0 EXCEPT ![i1] = @ + (Unit - Fmod1(tt))]
        i2 == Rem3(ToLong(tt) + 1) + 1
    IN  [p1 EXCEPT ![i2] = @ + Fmod1(tt)]

\* The three assertions of change_gamma.
GammaInRange(p) == \A k \in 1..3 : p[k] >= GAMMA_MIN /\ p[k] <= GAMMA_MAX

\* Mutant: the limit is compared strictly.
LoopCond_Strict(limit, e) == limit < 0 \/ limit > e

\* The condition of the while loop, on the elapsed time it read.
LoopCond(limit, e) == limit < 0 \/ limit >= e

\* -------------------------------------------------------------------- state

VARIABLES
    argv,           \* argv[1..argc-1]
    i,              \* the index of main's for loop
    time_limit, speed, luminosity,
    x11_display,    \* "NULL" or "open"
    x11_screen,
    pending_quit,
    handlers,       \* the signals handle_signal is installed for
    atexit_fn,      \* whether quit_application is registered with atexit
    pc,             \* where the process is
    start_time,
    elapsed,        \* get_time() - start_time as read by the loop condition
    t,              \* call_rainbow's parameter t
    palette,        \* change_gamma's parameters <<r, g, b>>
    caller,         \* who called change_gamma: "loop" or "quit"
    exiting,        \* exit() is running the atexit handlers
    exit_code,
    \* the environment
    now,            \* CLOCK_MONOTONIC
    gamma,          \* the display's gamma as last set by this process, <<>> if never
    opens, closes,  \* XOpenDisplay / XCloseDisplay calls made
    \* history
    quits,          \* calls of quit_application
    left,           \* why the loop was left
    after_stop      \* rainbow gamma-set calls issued since pending_quit was set in the loop

vars == <<argv, i, time_limit, speed, luminosity, x11_display, x11_screen,
          pending_quit, handlers, atexit_fn, pc, start_time, elapsed, t, palette,
          caller, exiting, exit_code, now, gamma, opens, closes, quits, left,
          after_stop>>

config == <<argv, time_limit, speed, luminosity>>
xstate == <<x11_display, x11_screen, gamma, opens, closes>>
looplocals == <<start_time, elapsed, t, palette, caller>>
sink == <<palette, caller>>
history == <<quits, left, after_stop>>

Signals == {"SIGINT", "SIGTERM", "SIGSEGV"}
Screens == {0, 1}

\* The process is gone: exit completed, abort(), or killed by a signal.
Terminated == pc \in {"exited", "aborted", "killed"}

\* The positions of the while loop of lines 183-189.
InLoop ==
    \/ pc \in {"loop_head", "call_rainbow", "yield", "check_quit"}
    \/ pc = "change_gamma" /\ caller = "loop"

Init ==
    /\ argv \in UNION {[1..n -> Tokens] : n \in 0..MaxArgs}
    /\ i = 1
    /\ time_limit = DefaultTimeLimit
    /\ speed = DefaultSpeed
    /\ luminosity = DefaultLuminosity
    /\ x11_display = "NULL"
    /\ x11_screen = 0
    /\ pending_quit = FALSE
    /\ handlers = {}
    /\ atexit_fn = FALSE
    /\ pc = "parse"
    /\ start_time = 0
    /\ elapsed = 0
    /\ t = 0
    /\ palette = <<>>
    /\ caller = "none"
    /\ exiting = FALSE
    /\ exit_code = "none"
    /\ now = 0
    /\ gamma = <<>>
    /\ opens = 0
    /\ closes = 0
    /\ quits = 0
    /\ left = "no"
    /\ after_stop = 0

\* exit(code), and main's return of code: the atexit handlers run, once.  A
\* second call of exit while they run is undefined behaviour: the C library
\* either goes on with the handlers that are left (none) and ends the process,
\* or traps the recursive call, and with handle_signal installed for the trap's
\* signal the process never ends.  exit does not return: the locals of main and
\* call_rainbow are dead from here on and are cleared.
exit(code) ==
    /\ IF exiting
       THEN \/ pc' = "exited" /\ exit_code' = code /\ exiting' = exiting
            \/ pc' = "hung" /\ exit_code' = exit_code /\ exiting' = exiting
       ELSE /\ exit_code' = code
            /\ exiting' = TRUE
            /\ pc' = IF atexit_fn THEN "quit_application" ELSE "exited"
    /\ start_time' = 0
    /\ elapsed' = 0
    /\ t' = 0

\* ----------------------------------------------------------- option parsing

\* Which branch of the if / else-if chain of lines 134-168 takes argv[i].
Branch(a, hasNext) ==
    IF a \in HelpFlags THEN "help"
    ELSE IF a \in VersionFlags THEN "version"
    ELSE IF a \in TimeLimitFlags /\ hasNext THEN "time_limit"
    ELSE IF a \in LuminosityFlags /\ hasNext THEN "luminosity"
    ELSE IF a \in SpeedFlags /\ hasNext THEN "speed"
    ELSE "usage"

\* pc = "parse" and the for loop has an argument left that takes branch b.
AtBranch(b) ==
    /\ pc = "parse"
    /\ i <= Len(argv)
    /\ Branch(argv[i], i + 1 <= Len(argv)) = b

\* i < argc fails: the for loop ends.
ParseDone ==
    /\ pc = "parse"
    /\ i > Len(argv)
    /\ pc' = "open"
    /\ UNCHANGED <<config, i, xstate, pending_quit, handlers, atexit_fn,
                   looplocals, exiting, exit_code, now, history>>

\* -h | --help: print_usage_and_exit(argv[0], EXIT_SUCCESS).
ParseHelp ==
    /\ AtBranch("help")
    /\ exit("EXIT_SUCCESS")
    /\ UNCHANGED <<config, i, xstate, pending_quit, handlers, atexit_fn,
                   sink, now, history>>

\* -v | --version: print_version_and_exit().
ParseVersion ==
    /\ AtBranch("version")
    /\ exit("EXIT_SUCCESS")
    /\ UNCHANGED <<config, i, xstate, pending_quit, handlers, atexit_fn,
                   sink, now, history>>

\* -t | --time-limit with an argument: any value is taken.
ParseTimeLimit ==
    /\ AtBranch("time_limit")
    /\ time_limit' = atof(argv[i + 1])
    /\ i' = i + 2
    /\ UNCHANGED <<argv, speed, luminosity, xstate, pending_quit, handlers,
                   atexit_fn, pc, looplocals, exiting, exit_code, now, history>>

\* -l | --luminosity with an argument.
ParseLuminosity ==
    /\ AtBranch("luminosity")
    /\ luminosity' = atof(argv[i + 1])
    /\ IF LuminosityRejected(luminosity')
       THEN exit("EXIT_FAILURE") /\ i' = i
       ELSE i' = i + 2 /\ UNCHANGED <<pc, exiting, exit_code, start_time, elapsed, t>>
    /\ UNCHANGED <<argv, time_limit, speed, xstate, pending_quit, handlers,
                   atexit_fn, sink, now, history>>

\* -s | --speed with an argument.
ParseSpeed ==
    /\ AtBranch("speed")
    /\ speed' = atof(argv[i + 1])
    /\ IF SpeedRejected(speed')
       THEN exit("EXIT_FAILURE") /\ i' = i
       ELSE i' = i + 2 /\ UNCHANGED <<pc, exiting, exit_code, start_time, elapsed, t>>
    /\ UNCHANGED <<argv, time_limit, luminosity, xstate, pending_quit, handlers,
                   atexit_fn, sink, now, history>>

\* Anything else, or an option whose argument is missing.
ParseUnknown ==
    /\ AtBranch("usage")
    /\ exit("EXIT_FAILURE")
    /\ UNCHANGED <<config, i, xstate, pending_quit, handlers, atexit_fn,
                   sink, now, history>>

\* ------------------------------------------------------------------ startup

\* XOpenDisplay succeeds; DefaultScreen gives the screen.
OpenDisplay ==
    /\ pc = "open"
    /\ opens' = opens + 1
    /\ x11_display' = "open"
    /\ x11_screen' \in Screens
    /\ pc' = "atexit"
    /\ UNCHANGED <<config, i, gamma, closes, pending_quit, handlers, atexit_fn,
                   looplocals, exiting, exit_code, now, history>>

\* XOpenDisplay returns NULL: main returns EXIT_FAILURE.
OpenDisplayFails ==
    /\ pc = "open"
    /\ opens' = opens + 1
    /\ exit("EXIT_FAILURE")
    /\ UNCHANGED <<config, i, x11_display, x11_screen, gamma, closes,
                   pending_quit, handlers, atexit_fn, sink, now, history>>

\* atexit(quit_application).
RegisterAtexit ==
    /\ pc = "atexit"
    /\ atexit_fn' = TRUE
    /\ pc' = "signal_int"
    /\ UNCHANGED <<config, i, xstate, pending_quit, handlers, looplocals,
                   exiting, exit_code, now, history>>

\* The three signal(..., handle_signal) calls, in order.
InstallHandler ==
    /\ pc \in {"signal_int", "signal_term", "signal_segv"}
    /\ handlers' = handlers \cup
          {CASE pc = "signal_int" -> "SIGINT"
             [] pc = "signal_term" -> "SIGTERM"
             [] OTHER -> "SIGSEGV"}
    /\ pc' = CASE pc = "signal_int" -> "signal_term"
               [] pc = "signal_term" -> "signal_segv"
               [] OTHER -> "start"
    /\ UNCHANGED <<config, i, xstate, pending_quit, atexit_fn, looplocals,
                   exiting, exit_code, now, history>>

\* double start_time = get_time();
StartTime ==
    /\ pc = "start"
    /\ start_time' = now
    /\ pc' = "loop_head"
    /\ UNCHANGED <<config, i, xstate, pending_quit, handlers, atexit_fn,
                   elapsed, t, palette, caller, exiting, exit_code, now, history>>

\* ----------------------------------------------------------------- the loop

\* The loop condition of line 183.  A negative limit short-circuits: the clock
\* is not read.
LoopHead ==
    /\ pc = "loop_head"
    /\ elapsed' = IF time_limit < 0 THEN elapsed ELSE now - start_time
    /\ IF LoopCond(time_limit, elapsed')
       THEN pc' = "call_rainbow" /\ left' = left
       ELSE pc' = "return" /\ left' = "time_limit"
    /\ UNCHANGED <<config, i, xstate, pending_quit, handlers, atexit_fn,
                   start_time, t, palette, caller, exiting, exit_code, now,
                   quits, after_stop>>

\* call_rainbow((get_time() - start_time) * speed, luminosity), up to its call
\* of change_gamma: the clock is read again.
CallRainbow ==
    /\ pc = "call_rainbow"
    /\ t' = Mul(now - start_time, speed)
    /\ palette' = call_rainbow(t', luminosity)
    /\ caller' = "loop"
    /\ pc' = "change_gamma"
    /\ UNCHANGED <<config, i, xstate, pending_quit, handlers, atexit_fn,
                   start_time, elapsed, exiting, exit_code, now, history>>

\* clock_gettime fails in one of the three get_time calls: exit(EXIT_FAILURE).
GetTimeFails ==
    /\ \/ pc \in {"start", "call_rainbow"}
       \/ pc = "loop_head" /\ time_limit >= 0
    /\ exit("EXIT_FAILURE")
    /\ left' = IF InLoop THEN "clock_fail" ELSE left
    /\ UNCHANGED <<config, i, xstate, pending_quit, handlers, atexit_fn,
                   sink, now, quits, after_stop>>

\* What change_gamma's caller counts of a call that passed the assertions.
Issued ==
    IF caller = "loop" /\ pending_quit /\ after_stop < MaxAfterStop
    THEN after_stop + 1
    ELSE after_stop

\* change_gamma: an assertion fails, abort().
ChangeGammaAssert ==
    /\ pc = "change_gamma"
    /\ ~GammaInRange(palette)
    /\ pc' = "aborted"
    /\ left' = IF caller = "loop" THEN "assert" ELSE left
    /\ UNCHANGED <<config, i, xstate, pending_quit, handlers, atexit_fn,
                   looplocals, exiting, exit_code, now, quits, after_stop>>

\* change_gamma: XF86VidModeSetGamma succeeds, XFlush, return to the caller.
\* call_rainbow's t and the loop condition's temporary are dead by then and
\* are cleared.
ChangeGamma ==
    /\ pc = "change_gamma"
    /\ GammaInRange(palette)
    /\ gamma' = palette
    /\ after_stop' = Issued
    /\ pc' = IF caller = "loop" THEN "yield" ELSE "quit_close"
    /\ elapsed' = 0
    /\ t' = 0
    /\ UNCHANGED <<config, i, x11_display, x11_screen, opens, closes,
                   pending_quit, handlers, atexit_fn, start_time, sink, exiting,
                   exit_code, now, quits, left>>

\* change_gamma: XF86VidModeSetGamma returns 0, exit(EXIT_FAILURE).
ChangeGammaFails ==
    /\ pc = "change_gamma"
    /\ GammaInRange(palette)
    /\ after_stop' = Issued
    /\ left' = IF caller = "loop" THEN "gamma_fail" ELSE left
    /\ exit("EXIT_FAILURE")
    /\ UNCHANGED <<config, i, xstate, pending_quit, handlers, atexit_fn,
                   sink, now, quits>>

\* sched_yield().
Yield ==
    /\ pc = "yield"
    /\ pc' = "check_quit"
    /\ UNCHANGED <<config, i, xstate, pending_quit, handlers, atexit_fn,
                   looplocals, exiting, exit_code, now, history>>

\* if(pending_quit) break;
CheckQuit ==
    /\ pc = "check_quit"
    /\ IF pending_quit
       THEN pc' = "return" /\ left' = "pending_quit"
       ELSE pc' = "loop_head" /\ left' = left
    /\ UNCHANGED <<config, i, xstate, pending_quit, handlers, atexit_fn,
                   looplocals, exiting, exit_code, now, quits, after_stop>>

\* return EXIT_SUCCESS; from main.
Return ==
    /\ pc = "return"
    /\ exit("EXIT_SUCCESS")
    /\ UNCHANGED <<config, i, xstate, pending_quit, handlers, atexit_fn,
                   sink, now, history>>

\* ----------------------------------------------------------------- teardown

\* quit_application, up to its call change_gamma(1.0f, 1.0f, 1.0f).
quit_application ==
    /\ pc = "quit_application"
    /\ quits' = quits + 1
    /\ palette' = Neutral
    /\ caller' = "quit"
    /\ pc' = "change_gamma"
    /\ UNCHANGED <<config, i, xstate, pending_quit, handlers, atexit_fn,
                   start_time, elapsed, t, exiting, exit_code, now, left,
                   after_stop>>

\* quit_application after change_gamma returned: XCloseDisplay, and exit ends.
QuitClose ==
    /\ pc = "quit_close"
    /\ IF x11_display # "NULL"
       THEN closes' = closes + 1 /\ x11_display' = "NULL"
       ELSE UNCHANGED <<closes, x11_display>>
    /\ pc' = "exited"
    /\ UNCHANGED <<config, i, x11_screen, gamma, opens, pending_quit, handlers,
                   atexit_fn, looplocals, exiting, exit_code, now, history>>

\* ------------------------------------------------------------------ signals

\* Mutant: the handler tears the display down itself.
handle_signal_Cleanup ==
    /\ pending_quit' = TRUE
    /\ gamma' = IF x11_display = "open" THEN Neutral ELSE gamma
    /\ UNCHANGED <<config, i, x11_display, x11_screen, opens, closes, handlers,
                   atexit_fn, pc, looplocals, exiting, exit_code, now, history>>

\* handle_signal: pending_quit = 1.
handle_signal ==
    /\ pending_quit' = TRUE
    /\ UNCHANGED <<config, i, xstate, handlers, atexit_fn, pc, looplocals,
                   exiting, exit_code, now, history>>

\* A signal that handle_signal is installed for arrives.
SignalHandled ==
    /\ ~Terminated
    /\ \E s \in Signals : s \in handlers
    /\ handle_signal

\* One of the three signals arrives before its signal() call: the default
\* action ends the process, and no atexit handler runs.
SignalDefault ==
    /\ ~Terminated
    /\ \E s \in Signals : s \notin handlers
    /\ pc' = "killed"
    /\ UNCHANGED <<config, i, xstate, pending_quit, handlers, atexit_fn,
                   looplocals, exiting, exit_code, now, history>>

\* -------------------------------------------------------------------- clock

\* CLOCK_MONOTONIC advances.  The program reads it from line 182 on and only
\* in the loop, so it stands still elsewhere.
Tick ==
    /\ pc = "start" \/ InLoop
    /\ now < MaxTicks * TickLen
    /\ now' = now + TickLen
    /\ UNCHANGED <<config, i, xstate, pending_quit, handlers, atexit_fn, pc,
                   looplocals, exiting, exit_code, history>>

Next ==
    \/ ParseDone
    \/ ParseHelp
    \/ ParseVersion
    \/ ParseTimeLimit
    \/ ParseLuminosity
    \/ ParseSpeed
    \/ ParseUnknown
    \/ OpenDisplay
    \/ OpenDisplayFails
    \/ RegisterAtexit
    \/ InstallHandler
    \/ StartTime
    \/ LoopHead
    \/ CallRainbow
    \/ GetTimeFails
    \/ ChangeGammaAssert
    \/ ChangeGamma
    \/ ChangeGammaFails
    \/ Yield
    \/ CheckQuit
    \/ Return
    \/ quit_application
    \/ QuitClose
    \/ SignalHandled
    \/ SignalDefault
    \/ Tick

Spec == Init /\ [][Next]_vars

\* ------------------------------------------------------------------- claims

\* change_gamma has just been called by call_rainbow with <<r, g, b>> = palette.
RainbowCall == pc = "change_gamma" /\ caller = "loop"

\* The sum of the three channels.
Sum3(p) == p[1] + p[2] + p[3]

\* C1: on every exit that follows the loop ending on the time limit or on the
\* stop flag, the process ends with the display's gamma at neutral and the
\* connection closed exactly once; the gamma is neutral whenever the connection
\* has been closed, and it is never closed twice.
C1_NeutralThenClosedOnce ==
    /\ closes <= 1
    /\ closes = 1 => gamma = Neutral
    /\ (left \in {"time_limit", "pending_quit"} /\ (Terminated \/ pc = "hung"))
          => (pc = "exited" /\ closes = 1 /\ gamma = Neutral)

\* C2: every triple call_rainbow passes to change_gamma has its channels in
\* [0.1, 10.0], so no assertion of change_gamma fails.
C2_AssertionsNeverFail ==
    /\ RainbowCall => GammaInRange(palette)
    /\ pc # "aborted"

\* C3: each channel of the colour for (t, luminosity) lies in [L, L + 1.0] and
\* the three channels sum to 3 * L + 1.0.
C3_ChannelsAndSum ==
    RainbowCall =>
        /\ \A k \in 1..3 : palette[k] >= luminosity /\ palette[k] <= luminosity + Unit
        /\ Sum3(palette) = 3 * luminosity + Unit

\* C3 witness: a colour past the first period, between two integer times.
C3_Witness == RainbowCall /\ t > 3 * Unit /\ t % Unit # 0

\* C4: the colour adds 1 - frac to channel floor(t) mod 3 and frac to channel
\* (floor(t) + 1) mod 3, in the order red, green, blue; at t = 0, 1, 2 and 0.5
\* it is (L+1, L, L), (L, L+1, L), (L, L, L+1) and (L+0.5, L+0.5, L); and the
\* colour at t + 3 is the colour at t.
C4_CrossFade ==
    LET L == luminosity
        fl == t \div Unit
        frac == t % Unit
    IN  /\ RainbowCall =>
            /\ \A k \in 1..3 :
                  palette[k] = L + (IF k - 1 = fl % 3 THEN Unit - frac ELSE 0)
                                 + (IF k - 1 = (fl + 1) % 3 THEN frac ELSE 0)
            /\ t = 0 => palette = <<L + Unit, L, L>>
            /\ t = Unit => palette = <<L, L + Unit, L>>
            /\ t = 2 * Unit => palette = <<L, L, L + Unit>>
            /\ t = Unit \div 2 => palette = <<L + Unit \div 2, L + Unit \div 2, L>>
            /\ call_rainbow(t + 3 * Unit, L) = palette
        /\ call_rainbow(0, L) = <<L + Unit, L, L>>
        /\ call_rainbow(Unit, L) = <<L, L + Unit, L>>
        /\ call_rainbow(2 * Unit, L) = <<L, L, L + Unit>>
        /\ call_rainbow(Unit \div 2, L) = <<L + Unit \div 2, L + Unit \div 2, L>>

\* C4 witness: the loop applies the colour of t = 0.5.
C4_Witness == RainbowCall /\ t = Unit \div 2 /\ gamma # <<>>

\* Argument k of command line a is -s with a numeral <= 0 after it, or -l with
\* a numeral outside [0.1, 9.9] after it.
BadOptionAt(a, k) ==
    /\ k + 1 <= Len(a)
    /\ a[k + 1] \in Numerals
    /\ \/ a[k] \in SpeedFlags /\ atof(a[k + 1]) <= 0
       \/ a[k] \in LuminosityFlags
            /\ (atof(a[k + 1]) < Unit \div 10 \/ atof(a[k + 1]) > (99 * Unit) \div 10)

\* The command line supplies a speed <= 0 or a luminosity outside [0.1, 9.9].
SuppliesBadOption == \E k \in 1..Len(argv) : BadOptionAt(argv, k)

\* No display state has been touched.
DisplayUntouched ==
    opens = 0 /\ x11_display = "NULL" /\ gamma = <<>> /\ ~atexit_fn /\ quits = 0

\* C5, as claimed: a command line that supplies a speed <= 0 or a luminosity
\* outside [0.1, 9.9] makes the process exit with failure status, the display
\* never opened.
C5_BadOptionExitsWithFailure ==
    (SuppliesBadOption /\ pc = "exited") =>
        (exit_code = "EXIT_FAILURE" /\ DisplayUntouched)

\* C5, amended: on such a command line the process never gets past option
\* parsing and never touches the display; it exits with failure status, unless
\* parsing reached a -h / -v argument that stands before the offending option,
\* and then it exits with success.  Every exit decided during option parsing
\* leaves the display untouched.
C5_BadOptionNeverOpens ==
    /\ SuppliesBadOption =>
          /\ pc \in {"parse", "exited", "killed"}
          /\ DisplayUntouched
          /\ pc = "exited" =>
                \/ exit_code = "EXIT_FAILURE"
                \/ /\ exit_code = "EXIT_SUCCESS"
                   /\ argv[i] \in HelpFlags \cup VersionFlags
                   /\ \A k \in 1..i : ~BadOptionAt(argv, k)
    /\ (pc \in {"parse", "exited"} /\ i <= Len(argv)) => DisplayUntouched

\* C5 witness: parsing reached -s with a value <= 0 and the process is gone.
C5_Witness ==
    /\ pc = "exited"
    /\ exit_code = "EXIT_FAILURE"
    /\ BadOptionAt(argv, i)
    /\ argv[i] \in SpeedFlags

\* A step out of the loop by a fatal failure: exit(EXIT_FAILURE) or abort().
FatalStep == exit_code' = "EXIT_FAILURE" \/ pc' = "aborted"

\* C6: with a limit T >= 0 the loop-head check keeps the loop running while
\* the elapsed time it reads is <= T and ends it at the first check that reads
\* more; a negative limit never ends it; the loop is left only on elapsed > T
\* with T >= 0, on the stop flag read set, or on a fatal failure.
C6_TimeLimit ==
    [][ /\ (pc = "loop_head" /\ pc' # pc /\ ~FatalStep) =>
              IF time_limit >= 0 /\ now - start_time > time_limit
              THEN pc' = "return"
              ELSE pc' = "call_rainbow"
        /\ (InLoop /\ ~InLoop') =>
              \/ /\ pc = "loop_head" /\ pc' = "return"
                 /\ time_limit >= 0 /\ now - start_time > time_limit
              \/ pc = "check_quit" /\ pc' = "return" /\ pending_quit
              \/ FatalStep
      ]_vars

\* C6 witness: the loop ran, no stop was requested, and the check at elapsed
\* > T ended it.
C6_Witness ==
    /\ pc = "return"
    /\ time_limit >= 0
    /\ elapsed > time_limit
    /\ gamma # <<>>
    /\ ~pending_quit

\* C7: the colour the loop applies is the colour of the elapsed time that the
\* loop condition compared with the limit, so with a limit T >= 0 no rainbow
\* colour is applied for an elapsed time greater than T (t is that elapsed time
\* scaled by speed).
C7_NoColourPastLimit ==
    (RainbowCall /\ time_limit >= 0) => t <= Mul(time_limit, speed)

\* The loop issues at most one rainbow gamma-set call once the stop flag is
\* set, and a gamma-set call made after the loop saw the flag is the reset.
C8_LatencyBound ==
    /\ after_stop <= 1
    /\ (left = "pending_quit" /\ pc = "change_gamma") => palette = Neutral

\* C8: after the stop flag is set the loop issues at most one more rainbow
\* gamma-set call, the next gamma-set call is the neutral reset, and the
\* process then terminates.
C8_StopThenResetThenEnd ==
    /\ C8_LatencyBound
    /\ left = "pending_quit" => pc # "hung"

\* C9: pending_quit starts false and no step sets it back to false; the step
\* that sets it, and every run of the handler, leaves the display handle, the
\* screen index and the gamma as they are (and everything else).
C9_HandlerOnlySetsFlag ==
    [][ /\ pending_quit => pending_quit'
        /\ (pending_quit' # pending_quit) =>
              UNCHANGED <<config, i, xstate, handlers, atexit_fn, pc, looplocals,
                          exiting, exit_code, now, history>>
        /\ SignalHandled =>
              pending_quit' /\ UNCHANGED <<x11_display, x11_screen, gamma>>
        /\ (pc = "parse" /\ i = 1) => ~pending_quit
      ]_vars

\* C9 witness: the flag was set while the loop runs with a colour applied.
C9_Witness == pending_quit /\ InLoop /\ gamma # <<>> /\ gamma # Neutral

\* C10: when a gamma-set call of the loop fails the process ends with failure
\* status, teardown having run once and to its end: the connection is closed
\* exactly once.
C10_FailedSetTearsDownOnce ==
    (left = "gamma_fail" /\ (Terminated \/ pc = "hung")) =>
        /\ pc = "exited"
        /\ exit_code = "EXIT_FAILURE"
        /\ quits = 1
        /\ closes = 1
        /\ x11_display = "NULL"

====
